---- MODULE Spec2Model ----
(***************************************************************************)
(* Model of the ungamed engine (src/src/lib.rs): the session and cursor    *)
(* typestate controllers, the update and render clocks, and the body of    *)
(* the event-loop callback of run_application.                             *)
(*                                                                         *)
(* Time is counted in units of 1/3000 s, so that the update period (1/50   *)
(* s = 60), the render period (1/60 s = 50), the render-overrun threshold  *)
(* (10 ms = 30) and its margin (3 ms = 9) are whole numbers.  Wall time    *)
(* advances in steps of one Quantum (1/300 s).                             *)
(***************************************************************************)
EXTENDS Integers, Sequences, FiniteSets, TLC

VARIABLES
    now,            \* Instant::now(), in units
    pc,             \* position of the control thread in the callback
    pending,        \* how many external (winit) events the host has queued
    evt,            \* the Event the application is handling
    ctl,            \* the ApplicationController lent to the handler
    game_data,      \* Engine::game_data : Option<GameData>
    graphics_data,  \* Engine::graphics_data (the render clock)
    cursor_data,    \* Engine::cursor_data
    closing,        \* Engine::closing
    event_buffer,   \* control events still to be emitted in this callback
    next_tick,      \* the callback's local next_tick_time : Option<Instant>
    render_start,   \* maybe_render's start and game_info while a render runs
    control_flow,   \* *control_flow as left by the last callback
    iter,           \* observations about the current callback invocation
    obs,            \* observations about the current session
    window,         \* the OS window: cursor visibility, pointer grab, cursor
    cursor_obs,     \* observations about the cursor transitions
    clock,          \* a schedule at nanosecond resolution (next_tick_time)
    graphics        \* GraphicsData::graphics and the frame being drawn

vars == <<now, pc, pending, evt, ctl, game_data, graphics_data, cursor_data,
          closing, event_buffer, next_tick, render_start, control_flow, iter, obs,
          window, cursor_obs, clock, graphics>>

-----------------------------------------------------------------------------
(* Bounds of the model *)

MaxTime == 6
MaxTimelyTime == 24
MaxPending == 2
MaxControlEvents == 2
MaxPos == 1
MaxRate == 60
MaxTicks == 130
MaxSize == 2
MaxLine == 51

(* Program constants *)

UPDATE_RATE == 50
RENDER_RATE == 60
OVERRUN_MILLIS == 10
MARGIN_MILLIS == 3
TEXT_NUM_LINES == 50

UnitsPerSec == 3 * 1000
Quantum == UnitsPerSec \div 300
Horizon == MaxTime * Quantum

Millis(ms) == (ms * UnitsPerSec) \div 1000

(* Option<T> as a sequence of length at most one *)
None == <<>>
Some(x) == <<x>>
IsSome(o) == o # <<>>
Unwrap(o) == o[1]

Min(a, b) == IF a <= b THEN a ELSE b

-----------------------------------------------------------------------------
(* Clock *)

\* mutant: whole seconds are divided before they are scaled
TickOffset_divides_first(num_ticks, tick_rate) ==
    (num_ticks \div tick_rate) * UnitsPerSec

\* Duration::from_secs(num_ticks) / tick_rate, truncated to the time unit
TickOffset(num_ticks, tick_rate) == (num_ticks * UnitsPerSec) \div tick_rate

next_tick_time(ref_time, num_ticks, tick_rate) ==
    ref_time + TickOffset(num_ticks, tick_rate)

(* The same function at the resolution of std::time: a Duration and an       *)
(* Instant are whole seconds and nanoseconds below one second.  The products *)
(* are split so that no intermediate value leaves the range of the checker's *)
(* integers; the values are those of the 64-bit arithmetic of Duration.      *)

NANOS_PER_SEC == 1000000000

\* floor(a * b / c), for 0 <= a < c
MulDivFloor(a, b, c) == a * (b \div c) + (a * (b % c)) \div c

\* Duration::from_secs
from_secs(secs) == [secs |-> secs, nanos |-> 0]

\* mutant: the remainder of the whole seconds is not carried into the nanoseconds
duration_div_drops_carry(d, rhs) ==
    [secs |-> d.secs \div rhs, nanos |-> d.nanos \div rhs]

\* Duration / u32
duration_div(d, rhs) ==
    LET secs == d.secs \div rhs
        carry == d.secs - secs * rhs
        extra_nanos == MulDivFloor(carry, NANOS_PER_SEC, rhs)
    IN  [secs |-> secs, nanos |-> d.nanos \div rhs + extra_nanos]

\* Instant + Duration
instant_add(i, d) ==
    LET nanos == i.nanos + d.nanos IN
    IF nanos >= NANOS_PER_SEC
    THEN [secs |-> i.secs + d.secs + 1, nanos |-> nanos - NANOS_PER_SEC]
    ELSE [secs |-> i.secs + d.secs, nanos |-> nanos]

\* next_tick_time on Instants
next_tick_instant(ref_time, num_ticks, tick_rate) ==
    instant_add(ref_time, duration_div(from_secs(num_ticks), tick_rate))

\* the schedule observed at nanosecond resolution, when none is observed
NoClock == [reference |-> from_secs(0), num_ticks |-> 0, tick_rate |-> 1]

-----------------------------------------------------------------------------
(* GameData *)

paused(gd) == IsSome(gd.pause_start)

\* mutant: the pause is not looked at
next_update_time_ignores_pause(gd) ==
    IF gd.ended
    THEN None
    ELSE Some(next_tick_time(gd.update_ref_time, gd.num_updates, gd.update_rate))

\* mutant: the ended flag is not looked at
next_update_time_ignores_ended(gd) ==
    IF paused(gd)
    THEN None
    ELSE Some(next_tick_time(gd.update_ref_time, gd.num_updates, gd.update_rate))

next_update_time(gd) ==
    IF paused(gd) \/ gd.ended
    THEN None
    ELSE Some(next_tick_time(gd.update_ref_time, gd.num_updates, gd.update_rate))

\* mutant: no update is ever due
update_due_never(gd) == FALSE

\* the condition of maybe_update's first match arm
update_due(gd) ==
    /\ IsSome(next_update_time(gd))
    /\ Unwrap(next_update_time(gd)) <= now

\* mutant: an update that reports Ended is not counted
updated_counts_running_only(gd, status) ==
    [gd EXCEPT !.game = gd.game + 1,
               !.ended = IF status = "Ended" THEN TRUE ELSE gd.ended,
               !.num_updates = IF status = "Ended" THEN gd.num_updates
                               ELSE gd.num_updates + 1]

\* the effect of the first match arm, the simulation reporting status
updated(gd, status) ==
    [gd EXCEPT !.game = gd.game + 1,
               !.ended = IF status = "Ended" THEN TRUE ELSE gd.ended,
               !.num_updates = gd.num_updates + 1]

GameStatus == {"Running", "Ended"}

\* mutant: the snapshot never says paused
game_info_never_paused(gd) == [game |-> gd.game, paused |-> FALSE, ended |-> gd.ended]

\* GameData::game_info: the snapshot of the simulation lent to the renderer
game_info(gd) == [game |-> gd.game, paused |-> paused(gd), ended |-> gd.ended]

\* mutant: the first tick is counted as done
new_game_data_counts_from_one ==
    [game |-> 0, pause_start |-> None, ended |-> FALSE,
     update_ref_time |-> now, num_updates |-> 1, update_rate |-> UPDATE_RATE]

new_game_data ==
    [game |-> 0, pause_start |-> None, ended |-> FALSE,
     update_ref_time |-> now, num_updates |-> 0, update_rate |-> UPDATE_RATE]

-----------------------------------------------------------------------------
(* GraphicsData *)

\* mutant: the renders are scheduled at half the rate
next_render_time_at_half_rate(g) ==
    next_tick_time(g.render_ref_time + g.render_phase, 2 * g.num_renders, g.render_rate)

\* mutant: the phase is not added to the reference
next_render_time_ignores_phase(g) ==
    next_tick_time(g.render_ref_time, g.num_renders, g.render_rate)

next_render_time(g) ==
    next_tick_time(g.render_ref_time + g.render_phase, g.num_renders, g.render_rate)

\* mutant: the phase is moved after every render
rendered_shifts_every_render(g, start) ==
    [g EXCEPT !.render_phase = g.render_phase + (now - start),
              !.num_renders = g.num_renders + 1]

\* the bookkeeping of maybe_render after a render that started at start and
\* finished at the current instant (the smoothed fps estimate and last_render,
\* which only feeds it, are floating-point display values and are left out)
rendered(g, start) ==
    LET render_duration == now - start IN
    [g EXCEPT !.render_phase =
                  IF render_duration > Millis(OVERRUN_MILLIS)
                  THEN g.render_phase + (render_duration - Millis(MARGIN_MILLIS))
                  ELSE g.render_phase,
              !.num_renders = g.num_renders + 1]

-----------------------------------------------------------------------------
(* Graphics (graphics/mod.rs, graphics/render.rs).  The floating-point       *)
(* values are modelled as exact fractions n/d in lowest terms with d > 0;    *)
(* a division by zero gives d = 0.  Rounding to f32 or f64 is not modelled.  *)
(* An angle of a field of view is represented by the tangent of its half,    *)
(* which grows with the angle between 0 and a half turn.                     *)

RECURSIVE GCD(_, _)
GCD(a, b) == IF b = 0 THEN a ELSE GCD(b, a % b)

Abs(x) == IF x < 0 THEN 0 - x ELSE x

Frac(n, d) ==
    LET g == GCD(Abs(n), Abs(d))
        sign == IF d < 0 THEN 0 - 1 ELSE 1
    IN  IF g = 0 THEN [n |-> 0, d |-> 0]
        ELSE [n |-> sign * (n \div g), d |-> sign * (d \div g)]

Whole(k) == [n |-> k, d |-> 1]

FMul(a, b) == Frac(a.n * b.n, a.d * b.d)
FDiv(a, b) == Frac(a.n * b.d, a.d * b.n)
FAdd(a, b) == Frac(a.n * b.d + b.n * a.d, a.d * b.d)
FNeg(a) == [n |-> 0 - a.n, d |-> a.d]
FSub(a, b) == FAdd(a, FNeg(b))
FLess(a, b) == a.n * b.d < b.n * a.d
FLessEq(a, b) == a.n * b.d <= b.n * a.d
FPositive(a) == a.d > 0 /\ a.n > 0

\* f64::max(x, 1.0) on a whole number
max_one(x) == IF x > 1 THEN x ELSE 1

\* mutant: the height is not clamped
screen_ratio_of_unclamped(size) == Frac(max_one(size.width), size.height)

\* w / h of a size with both extents clamped to at least 1
screen_ratio_of(size) == Frac(max_one(size.width), max_one(size.height))

\* the frame of a render: which renderer the application holds, the matrices
\* the renderers were built with and the last thing drawn on the overlay
NoFrame == [stage |-> "none", world_to_screen |-> None,
            overlay_to_screen |-> None, drawn |-> None]

\* Graphics::new: the optimal size is clamped and fixes the first ratio
new_graphics(optimal_window_size) ==
    LET clamped == [width |-> max_one(optimal_window_size.width),
                    height |-> max_one(optimal_window_size.height)]
    IN  [screen_ratio |-> screen_ratio_of(optimal_window_size),
         optimal_window_size |-> clamped,
         resized |-> None,
         frame |-> NoFrame]

\* Graphics::set_view_port_size; resized notes the size reported
set_view_port_size(g, size) ==
    [g EXCEPT !.screen_ratio = screen_ratio_of(size), !.resized = Some(size)]

\* the optimal ratio as the renderers compute it from the stored size
optimal_screen_ratio(g) ==
    Frac(g.optimal_window_size.width, g.optimal_window_size.height)

\* Application::optimal_window_size of an application with a 16:9 window
DefaultGraphics == new_graphics([width |-> 16, height |-> 9])

\* mutant: the field of view is widened instead of cropped
as_matrix_widens(p, screen_ratio, optimal_ratio) ==
    LET sr == IF FLessEq(screen_ratio, Whole(0)) THEN optimal_ratio ELSE screen_ratio IN
    IF p.kind = "Central"
    THEN [kind |-> "PerspectiveFov",
          fovy |-> IF FLess(optimal_ratio, sr)
                   THEN FDiv(FMul(p.y_fov, sr), optimal_ratio)
                   ELSE p.y_fov,
          aspect |-> sr, near |-> p.near, far |-> p.far]
    ELSE LET d == FDiv(p.height, Whole(2))
             wide == FLess(optimal_ratio, sr)
             xd == IF wide THEN FMul(d, sr) ELSE FMul(d, sr)
             yd == IF wide THEN FDiv(d, optimal_ratio) ELSE d
         IN  [kind |-> "Ortho", left |-> FNeg(xd), right |-> xd,
              bottom |-> FNeg(yd), top |-> yd, near |-> p.near, far |-> p.far]

\* Projection::as_matrix: the perspective or orthographic projection the
\* matrix is built from
as_matrix(p, screen_ratio, optimal_ratio) ==
    LET sr == IF FLessEq(screen_ratio, Whole(0)) THEN optimal_ratio ELSE screen_ratio IN
    IF p.kind = "Central"
    THEN LET cropped_y_fov ==
                 IF FLess(optimal_ratio, sr)
                 THEN FDiv(FMul(p.y_fov, optimal_ratio), sr)
                 ELSE p.y_fov
         IN  [kind |-> "PerspectiveFov", fovy |-> cropped_y_fov,
              aspect |-> sr, near |-> p.near, far |-> p.far]
    ELSE LET d == FDiv(p.height, Whole(2))
             wide == FLess(optimal_ratio, sr)
             xd == IF wide THEN FMul(d, optimal_ratio) ELSE FMul(d, sr)
             yd == IF wide THEN FDiv(d, sr) ELSE d
         IN  [kind |-> "Ortho", left |-> FNeg(xd), right |-> xd,
              bottom |-> FNeg(yd), top |-> yd, near |-> p.near, far |-> p.far]

\* mutant: the branches of the letterbox are taken the other way round
overlay_to_screen_matrix_swapped(screen_ratio, size) ==
    LET ratio_ratio == FDiv(screen_ratio, Frac(size.width, size.height)) IN
    IF FLess(ratio_ratio, Whole(1))
    THEN [x_scaling |-> FDiv(FDiv(Whole(2), ratio_ratio), Whole(size.width)),
          y_scaling |-> FDiv(Whole(2), Whole(size.height)),
          x_offset |-> FDiv(Whole(0 - 1), ratio_ratio),
          y_offset |-> Whole(0 - 1)]
    ELSE [x_scaling |-> FDiv(Whole(2), Whole(size.width)),
          y_scaling |-> FDiv(FMul(Whole(2), ratio_ratio), Whole(size.height)),
          x_offset |-> Whole(0 - 1),
          y_offset |-> FNeg(ratio_ratio)]

\* OverlayRenderer::new: the scalings and offsets of overlay_to_screen_matrix
overlay_to_screen_matrix(screen_ratio, size) ==
    LET ratio_ratio == FDiv(screen_ratio, Frac(size.width, size.height)) IN
    IF FLess(Whole(1), ratio_ratio)
    THEN [x_scaling |-> FDiv(FDiv(Whole(2), ratio_ratio), Whole(size.width)),
          y_scaling |-> FDiv(Whole(2), Whole(size.height)),
          x_offset |-> FDiv(Whole(0 - 1), ratio_ratio),
          y_offset |-> Whole(0 - 1)]
    ELSE [x_scaling |-> FDiv(Whole(2), Whole(size.width)),
          y_scaling |-> FDiv(FMul(Whole(2), ratio_ratio), Whole(size.height)),
          x_offset |-> Whole(0 - 1),
          y_offset |-> FNeg(ratio_ratio)]

\* the matrix applied to the overlay point (x, y)
to_screen(m, x, y) ==
    [x |-> FAdd(FMul(m.x_scaling, x), m.x_offset),
     y |-> FAdd(FMul(m.y_scaling, y), m.y_offset)]

TEXT_MARGIN == Frac(2, 10)

TEXT_LINE_HEIGHT ==
    FDiv(Whole(2),
         FAdd(FMul(FAdd(Whole(1), TEXT_MARGIN), Whole(TEXT_NUM_LINES)), TEXT_MARGIN))

\* mutant: the line count itself is let through
line_in_range_inclusive(line_number) == line_number <= TEXT_NUM_LINES

\* the condition asserted at the start of draw_text
line_in_range(line_number) == line_number < TEXT_NUM_LINES

\* TEXT_NUM_LINES - 1 - line_number in u64: below zero it overflows, which
\* panics in a debug build and wraps in a release build
lines_below(line_number) == TEXT_NUM_LINES - 1 - line_number

\* the identity matrix draw_text uses as text_area_to_screen_matrix
text_area_to_screen_matrix ==
    [x_scaling |-> Whole(1), y_scaling |-> Whole(1),
     x_offset |-> Whole(0), y_offset |-> Whole(0)]

\* draw_text on a line in range: the translation of the text, whose glyphs
\* glium_text lays out from the origin upwards, one unit high, and the matrix
\* product handed to glium_text::draw
draw_text(line_number) ==
    LET x_offset == TEXT_MARGIN
        y_offset == FAdd(TEXT_MARGIN,
                         FMul(Whole(lines_below(line_number)),
                              FAdd(Whole(1), TEXT_MARGIN)))
        origin == to_screen(text_area_to_screen_matrix, x_offset, y_offset)
    IN  [kind |-> "text", line_number |-> line_number,
         x |-> origin.x, y |-> origin.y,
         height |-> text_area_to_screen_matrix.y_scaling]

-----------------------------------------------------------------------------
(* Overlay alignment.  The overlay renderer with alignments is not among the *)
(* sources; it is modelled from the specification: an alignment translates   *)
(* the object's local origin to the corresponding point of the window area,  *)
(* given in overlay coordinates, before the overlay matrix is applied.       *)

OverlayAlignment ==
    {"BottomLeft", "Bottom", "BottomRight", "Left", "Center", "Right",
     "TopLeft", "Top", "TopRight"}

\* the window, letterbox bars included, in overlay coordinates
visible_area(screen_ratio, size) ==
    LET ratio_ratio == FDiv(screen_ratio, Frac(size.width, size.height))
        w == Whole(size.width)
        h == Whole(size.height)
        half == Frac(1, 2)
    IN  IF FLess(Whole(1), ratio_ratio)
        THEN [left |-> FMul(FMul(half, w), FSub(Whole(1), ratio_ratio)),
              right |-> FMul(FMul(half, w), FAdd(Whole(1), ratio_ratio)),
              bottom |-> Whole(0), top |-> h]
        ELSE [left |-> Whole(0), right |-> w,
              bottom |-> FMul(FMul(half, h), FSub(Whole(1), FDiv(Whole(1), ratio_ratio))),
              top |-> FMul(FMul(half, h), FAdd(Whole(1), FDiv(Whole(1), ratio_ratio)))]

\* the point of the area an alignment stands for
alignment_origin(alignment, area) ==
    LET mid(a, b) == FMul(Frac(1, 2), FAdd(a, b)) IN
    [x |-> IF alignment \in {"BottomLeft", "Left", "TopLeft"} THEN area.left
           ELSE IF alignment \in {"BottomRight", "Right", "TopRight"} THEN area.right
           ELSE mid(area.left, area.right),
     y |-> IF alignment \in {"BottomLeft", "Bottom", "BottomRight"} THEN area.bottom
           ELSE IF alignment \in {"TopLeft", "Top", "TopRight"} THEN area.top
           ELSE mid(area.bottom, area.top)]

\* draw_textureless / draw_textured with an alignment, for an object whose
\* object_to_overlay_matrix is the identity: where its local origin lands
draw_aligned(m, alignment, screen_ratio, size) ==
    LET origin == alignment_origin(alignment, visible_area(screen_ratio, size)) IN
    [kind |-> "aligned", alignment |-> alignment,
     origin |-> to_screen(m, origin.x, origin.y)]

-----------------------------------------------------------------------------
(* Controllers *)

NoCtl == [game |-> "None", cursor |-> "None", app |-> "None"]

\* mutant: an ended session is handed out as Closed
game_controller_ended_as_closed(gdo) ==
    IF IsSome(gdo) /\ ~ Unwrap(gdo).ended
    THEN IF paused(Unwrap(gdo)) THEN "Paused" ELSE "Running"
    ELSE "Closed"

\* Engine::emit_event: the variant of GameController built from game_data
game_controller(gdo) ==
    IF IsSome(gdo)
    THEN IF Unwrap(gdo).ended THEN "Ended"
         ELSE IF paused(Unwrap(gdo)) THEN "Paused"
         ELSE "Running"
    ELSE "Closed"

\* mutant: a hidden cursor is handed out as Free
cursor_controller_hidden_as_free(cd) ==
    IF cd.mode = "Captured" THEN "Captured" ELSE "Free"

\* Engine::emit_event: the variant of CursorController built from cursor_data
cursor_controller(cd) ==
    IF cd.mode = "Normal" THEN "Free"
    ELSE IF cd.mode = "Captured" THEN "Captured"
    ELSE "Hidden"

-----------------------------------------------------------------------------
(* Observations *)

\* leftover: the events still queued when this invocation's event was taken;
\* busy: the wall time the invocation has taken so far, where it is limited;
\* closed_on: the event whose handler set the closing flag; transition: the
\* last session transition made by a handler before the update check
NewIter(leftover) ==
    [leftover |-> leftover, busy |-> 0, updates |-> 0, renders |-> 0,
     update_decided |-> FALSE, render_decided |-> FALSE,
     render_before_update |-> FALSE, closed_on |-> "None",
     transition |-> "None"]

NoObs == [started_at |-> 0, paused_total |-> 0,
          pause_n |-> 0, pause_nut |-> None, pause_at |-> 0]

\* os_ok: every OS call made so far has succeeded; hide_pos: the tracked
\* position when the cursor was last hidden, kept until the handler that shows
\* it again returns; moved: the OS reported a cursor move since then; tracked:
\* the position of the last cursor-move event taken while not Hidden; query:
\* the result of the handler's last position query
NoCursorObs == [os_ok |-> TRUE, hide_pos |-> None, moved |-> FALSE,
                tracked |-> 0, query |-> None]

-----------------------------------------------------------------------------
(* Initial state: the Engine as constructed by run_application *)

Positions == 1 .. MaxPos

ExternalEvents ==
    {[type |-> "CloseRequested", position |-> 0],
     [type |-> "DeviceEvent", position |-> 0]}
    \cup {[type |-> "CursorMoved", position |-> p] : p \in Positions}

InitEngine ==
    /\ now = 0
    /\ pc = "wait"
    /\ pending = 0
    /\ evt = "None"
    /\ ctl = NoCtl
    /\ game_data = None
    /\ graphics_data =
           [render_ref_time |-> 0, num_renders |-> 0, render_rate |-> RENDER_RATE,
            render_phase |-> 0]
    /\ cursor_data = [pos |-> 0, mode |-> "Normal"]
    /\ closing = FALSE
    /\ event_buffer = 0
    /\ next_tick = None
    /\ render_start = None
    /\ control_flow = [kind |-> "Poll", until |-> 0]
    /\ iter = NewIter(0)
    /\ obs = NoObs
    /\ window = [visible |-> TRUE, grab |-> FALSE, cursor |-> 0]
    /\ cursor_obs = NoCursorObs

Init == InitEngine /\ clock = NoClock /\ graphics = DefaultGraphics

-----------------------------------------------------------------------------
(* Wall time and the host's event queue *)

\* wall time advances by one quantum, up to horizon, while the control thread
\* is at a place in Places
Advance(Places, horizon) ==
    /\ pc \in Places
    /\ now + Quantum <= horizon
    /\ now' = now + Quantum
    /\ UNCHANGED <<pc, pending, evt, ctl, game_data, graphics_data, cursor_data,
                   closing, event_buffer, next_tick, render_start, control_flow,
                   obs,
                   window, cursor_obs, clock, graphics>>

\* Time passes while the host waits and while application code runs (an event
\* handler, the simulation's update, which ends in the GameUpdated handler,
\* and the render callback); the engine's own steps between them take none.
Timed == {"wait", "handler", "rendering"}

Tick == Advance(Timed, Horizon) /\ UNCHANGED iter

\* the windowing collaborator queues an external event; the callback runs to
\* completion, so an event that arrives during it is seen as queued when the
\* callback returns.  What the event is shows only when it is delivered.
Arrive ==
    /\ pc = "wait"
    /\ pending < MaxPending
    /\ pending' = pending + 1
    /\ UNCHANGED <<now, pc, evt, ctl, game_data, graphics_data, cursor_data,
                   closing, event_buffer, next_tick, render_start, control_flow,
                   iter, obs,
                   window, cursor_obs, clock, graphics>>

-----------------------------------------------------------------------------
(* Engine::emit_event and Engine::handle_event *)

\* emit_event(e) on the engine state (gdo, cd): the controller is built from
\* the state and lent to Application::handle_event
emit_event(e, gdo, cd) ==
    /\ evt' = e
    /\ ctl' = [game |-> game_controller(gdo),
               cursor |-> cursor_controller(cd),
               app |-> "Whole"]
    /\ pc' = "handler"

\* no event for the application: on to controls.get_events with n buffered
\* control events
no_emit(n) ==
    /\ evt' = "None"
    /\ ctl' = NoCtl
    /\ event_buffer' = n
    /\ pc' = "drain"

\* mutant: a cursor move is taken in every mode
tracks_cursor_always(mode) == TRUE

\* handle_event, CursorMoved: the position is taken unless the cursor is Hidden
tracks_cursor(mode) == mode # "Hidden"

\* mutant: every cursor move taken is passed on
position_changed_always(old_pos, pos) == TRUE

\* handle_event, CursorMoved: self.cursor_data.pos != old_pos
position_changed(old_pos, pos) == pos # old_pos

\* the callback is invoked with the oldest queued event; a CursorMoved event
\* carries the position the OS cursor has moved to
Deliver ==
    /\ pc = "wait"
    /\ pending > 0
    /\ pending' = pending - 1
    /\ \E e \in ExternalEvents :
       \/ /\ e.type = "CloseRequested"
          /\ emit_event("CloseRequested", game_data, cursor_data)
          /\ UNCHANGED <<cursor_data, event_buffer, window, cursor_obs>>
       \/ /\ e.type = "CursorMoved"
          /\ window' = [window EXCEPT !.cursor = e.position]
          /\ cursor_obs' =
                 IF cursor_data.mode = "Hidden"
                 THEN [cursor_obs EXCEPT !.moved = TRUE]
                 ELSE [cursor_obs EXCEPT !.tracked = e.position]
          /\ IF tracks_cursor(cursor_data.mode)
             THEN /\ cursor_data' = [cursor_data EXCEPT !.pos = e.position]
                  /\ IF position_changed(cursor_data.pos, cursor_data'.pos)
                     THEN /\ emit_event("CursorMoved", game_data, cursor_data')
                          /\ UNCHANGED event_buffer
                     ELSE no_emit(0)
             ELSE /\ no_emit(0)
                  /\ UNCHANGED cursor_data
       \/ /\ e.type = "DeviceEvent"
          /\ \E n \in 0 .. MaxControlEvents : no_emit(n)
          /\ UNCHANGED <<cursor_data, window, cursor_obs>>
    /\ iter' = NewIter(pending - 1)
    /\ UNCHANGED <<now, game_data, graphics_data, closing, next_tick,
                   render_start, control_flow, obs, clock, graphics>>

\* the wake-up instant requested by the last callback has come
wake_due ==
    \/ control_flow.kind = "Poll"
    \/ control_flow.kind = "WaitUntil" /\ now >= control_flow.until

\* the callback is invoked for a timer wake-up (WinitEvent::NewEvents)
Wake ==
    /\ pc = "wait"
    /\ pending = 0
    /\ wake_due
    /\ iter' = NewIter(0)
    /\ no_emit(0)
    /\ UNCHANGED <<now, pending, game_data, graphics_data, cursor_data, closing,
                   next_tick, render_start, control_flow, obs,
                   window, cursor_obs, clock, graphics>>

\* what the callback does once the control events are drained
after_drain == "update"

\* for event in event_buffer.drain(..) { emit_event(ControlEvent(event)) }
Drain ==
    /\ pc = "drain"
    /\ \/ /\ event_buffer > 0
          /\ event_buffer' = event_buffer - 1
          /\ emit_event("ControlEvent", game_data, cursor_data)
       \/ /\ event_buffer = 0
          /\ pc' = after_drain
          /\ UNCHANGED <<event_buffer, evt, ctl>>
    /\ UNCHANGED <<now, pending, game_data, graphics_data, cursor_data, closing,
                   next_tick, render_start, control_flow, iter, obs,
                   window, cursor_obs, clock, graphics>>

-----------------------------------------------------------------------------
(* Application::handle_event: the operations the controllers offer.  Each    *)
(* operation consumes the controller variant held and yields the next one;   *)
(* using game_controller moves it out of the ApplicationController, after    *)
(* which ApplicationController::close(self) can no longer be called.         *)

HandlerFrame == <<now, pc, pending, evt, graphics_data, cursor_data, closing,
                  event_buffer, next_tick, render_start, control_flow,
                  window, cursor_obs, clock, graphics>>

\* the invocation's record of a session transition made by the handler
transition_noted(name) ==
    IF iter.update_decided THEN iter ELSE [iter EXCEPT !.transition = name]

\* RunningGameController::pause
pause(gd) == [gd EXCEPT !.pause_start = Some(now)]

\* mutant: the paused time is not added to the reference instant
resume_keeps_reference(gd) == [gd EXCEPT !.pause_start = None]

\* PausedGameController::resume
resume(gd) ==
    [gd EXCEPT !.update_ref_time = gd.update_ref_time + (now - Unwrap(gd.pause_start)),
               !.pause_start = None]

\* mutant: close leaves the session in the slot
close_keeps_session(gdo) == gdo

\* *self.game_data = None in the three close methods
close(gdo) == None

\* as_mut().unwrap() on an empty slot, or pause_start.unwrap() on None
Panic ==
    /\ pc' = "panicked"
    /\ UNCHANGED <<now, pending, evt, ctl, game_data, graphics_data, cursor_data,
                   closing, event_buffer, next_tick, render_start, control_flow,
                   iter, obs,
                   window, cursor_obs, clock, graphics>>

GamePause ==
    /\ pc = "handler"
    /\ ctl.game = "Running"
    /\ IF IsSome(game_data)
       THEN /\ game_data' = Some(pause(Unwrap(game_data)))
            /\ ctl' = [ctl EXCEPT !.game = "Paused", !.app = "Partial"]
            /\ obs' = [obs EXCEPT !.pause_n = Unwrap(game_data).num_updates,
                                  !.pause_nut = next_update_time(Unwrap(game_data)),
                                  !.pause_at = now]
            /\ iter' = transition_noted("pause")
            /\ UNCHANGED HandlerFrame
       ELSE Panic

GameResume ==
    /\ pc = "handler"
    /\ ctl.game = "Paused"
    /\ IF IsSome(game_data) /\ IsSome(Unwrap(game_data).pause_start)
       THEN /\ game_data' = Some(resume(Unwrap(game_data)))
            /\ ctl' = [ctl EXCEPT !.game = "Running", !.app = "Partial"]
            /\ obs' = [obs EXCEPT !.paused_total = obs.paused_total + (now - obs.pause_at),
                                  !.pause_n = 0,
                                  !.pause_nut = None,
                                  !.pause_at = 0]
            /\ iter' = transition_noted("resume")
            /\ UNCHANGED HandlerFrame
       ELSE Panic

\* RunningGameController::close, PausedGameController::close,
\* EndedGameController::close
GameClose ==
    /\ pc = "handler"
    /\ ctl.game \in {"Running", "Paused", "Ended"}
    /\ game_data' = close(game_data)
    /\ ctl' = [ctl EXCEPT !.game = "Closed", !.app = "Partial"]
    /\ obs' = NoObs
    /\ iter' = transition_noted("close")
    /\ UNCHANGED HandlerFrame

\* ClosedGameController::start_new
GameStartNew ==
    /\ pc = "handler"
    /\ ctl.game = "Closed"
    /\ game_data' = Some(new_game_data)
    /\ ctl' = [ctl EXCEPT !.game = "Running", !.app = "Partial"]
    /\ obs' = [NoObs EXCEPT !.started_at = now]
    /\ iter' = transition_noted("start_new")
    /\ UNCHANGED HandlerFrame

\* ApplicationController::close
AppClose ==
    /\ pc = "handler"
    /\ ctl.app = "Whole"
    /\ closing' = TRUE
    /\ ctl' = NoCtl
    /\ iter' = [iter EXCEPT !.closed_on = evt]
    /\ UNCHANGED <<now, pc, pending, evt, game_data, graphics_data, cursor_data,
                   event_buffer, next_tick, render_start, control_flow, obs,
                   window, cursor_obs, clock, graphics>>

-----------------------------------------------------------------------------
(* The cursor controllers.  set_cursor_grab and set_cursor_position return a *)
(* Result the engine discards with ok(): either call may fail, and then it   *)
(* leaves the window as it was.                                              *)

set_cursor_visible(w, visible) == [w EXCEPT !.visible = visible]
set_cursor_grab(w, grab, ok) == IF ok THEN [w EXCEPT !.grab = grab] ELSE w
set_cursor_position(w, pos, ok) == IF ok THEN [w EXCEPT !.cursor = pos] ELSE w

\* the OS calls of FreeCursorController::capture
capture(w, grab_ok) == set_cursor_grab(w, TRUE, grab_ok)

\* the OS calls of FreeCursorController::hide and CapturedCursorController::hide
hide(w, grab_ok) == set_cursor_grab(set_cursor_visible(w, FALSE), TRUE, grab_ok)

\* the OS calls of CapturedCursorController::free
free(w, grab_ok) == set_cursor_grab(set_cursor_visible(w, TRUE), FALSE, grab_ok)

\* the OS calls of HiddenCursorController::show
show(w, pos, grab_ok, pos_ok) ==
    set_cursor_position(
        set_cursor_grab(set_cursor_visible(w, TRUE), FALSE, grab_ok), pos, pos_ok)

\* mutant: the grab is released as in show
show_captured_releases_grab(w, pos, grab_ok, pos_ok) == show(w, pos, grab_ok, pos_ok)

\* the OS calls of HiddenCursorController::show_captured
show_captured(w, pos, grab_ok, pos_ok) ==
    set_cursor_position(
        set_cursor_grab(set_cursor_visible(w, TRUE), TRUE, grab_ok), pos, pos_ok)

\* FreeCursorController::position, CapturedCursorController::position
position(cd) == cd.pos

CursorFrame == <<now, pc, pending, evt, game_data, graphics_data, closing,
                 event_buffer, next_tick, render_start, control_flow, iter, obs,
                 clock, graphics>>

\* a cursor transition taken from a controller variant in From: it stores
\* mode and returns the controller variant to, with the OS calls leaving the
\* window as w; all_ok: every call succeeded
CursorTransition(From, to, mode, w, all_ok) ==
    /\ pc = "handler"
    /\ ctl.cursor \in From
    /\ window' = w
    /\ cursor_data' = [cursor_data EXCEPT !.mode = mode]
    /\ ctl' = [ctl EXCEPT !.cursor = to, !.app = "Partial"]
    /\ cursor_obs' =
           [cursor_obs EXCEPT
               !.os_ok = cursor_obs.os_ok /\ all_ok,
               !.hide_pos = IF mode = "Hidden" THEN Some(cursor_data.pos)
                            ELSE cursor_obs.hide_pos,
               !.moved = IF mode = "Hidden" THEN FALSE ELSE cursor_obs.moved]
    /\ UNCHANGED CursorFrame

CursorCapture ==
    \E grab_ok \in BOOLEAN :
        CursorTransition({"Free"}, "Captured", "Captured", capture(window, grab_ok), grab_ok)

CursorHide ==
    \E grab_ok \in BOOLEAN :
        CursorTransition({"Free", "Captured"}, "Hidden", "Hidden", hide(window, grab_ok), grab_ok)

CursorFree ==
    \E grab_ok \in BOOLEAN :
        CursorTransition({"Captured"}, "Free", "Normal", free(window, grab_ok), grab_ok)

CursorShow ==
    \E grab_ok \in BOOLEAN, pos_ok \in BOOLEAN :
        CursorTransition({"Hidden"}, "Free", "Normal",
                         show(window, cursor_data.pos, grab_ok, pos_ok),
                         grab_ok /\ pos_ok)

CursorShowCaptured ==
    \E grab_ok \in BOOLEAN, pos_ok \in BOOLEAN :
        CursorTransition({"Hidden"}, "Captured", "Captured",
                         show_captured(window, cursor_data.pos, grab_ok, pos_ok),
                         grab_ok /\ pos_ok)

\* the handler asks a Free or Captured controller for the position
CursorPosition ==
    /\ pc = "handler"
    /\ ctl.cursor \in {"Free", "Captured"}
    /\ cursor_obs' = [cursor_obs EXCEPT !.query = Some(position(cursor_data))]
    /\ UNCHANGED <<ctl, cursor_data, window>>
    /\ UNCHANGED CursorFrame

-----------------------------------------------------------------------------
(* The return from Application::handle_event *)

\* mutant: the update check is repeated after the GameUpdated handler
after_handler_catches_up(e) == "drain"

\* mutant: one control event is taken from the buffer per callback
after_handler_takes_one(e) == IF e = "GameUpdated" THEN "render" ELSE "update"

\* where the engine continues when handle_event returns from event e
after_handler(e) == IF e = "GameUpdated" THEN "render" ELSE "drain"

HandlerReturn ==
    /\ pc = "handler"
    /\ pc' = after_handler(evt)
    /\ evt' = "None"
    /\ ctl' = NoCtl
    /\ cursor_obs' =
           IF cursor_data.mode = "Hidden"
           THEN [cursor_obs EXCEPT !.query = None]
           ELSE [cursor_obs EXCEPT !.query = None, !.hide_pos = None, !.moved = FALSE]
    /\ UNCHANGED <<now, pending, game_data, graphics_data, cursor_data, closing,
                   event_buffer, next_tick, render_start, control_flow, iter, obs,
                   window, clock, graphics>>

-----------------------------------------------------------------------------
(* Engine::maybe_update_game *)

\* the value maybe_update_game returns when an update was performed and left
\* the session as gd: it is read before the GameUpdated event is emitted
returned_after_update(gd) == next_update_time(gd)

\* which simulation statuses the session may report
MaybeUpdateGame(Statuses) ==
    /\ pc = "update"
    /\ IF IsSome(game_data)
       THEN IF update_due(Unwrap(game_data))
            THEN \E status \in Statuses :
                   /\ game_data' = Some(updated(Unwrap(game_data), status))
                   /\ next_tick' = returned_after_update(Unwrap(game_data'))
                   /\ emit_event("GameUpdated", game_data', cursor_data)
                   /\ iter' = [iter EXCEPT !.updates = iter.updates + 1,
                                           !.update_decided = TRUE,
                                           !.render_before_update = iter.render_decided]
            ELSE /\ next_tick' = next_update_time(Unwrap(game_data))
                 /\ pc' = "render"
                 /\ iter' = [iter EXCEPT !.update_decided = TRUE,
                                         !.render_before_update = iter.render_decided]
                 /\ UNCHANGED <<game_data, evt, ctl>>
       ELSE /\ next_tick' = None
            /\ pc' = "render"
            /\ iter' = [iter EXCEPT !.update_decided = TRUE,
                                    !.render_before_update = iter.render_decided]
            /\ UNCHANGED <<game_data, evt, ctl>>
    /\ UNCHANGED <<now, pending, graphics_data, cursor_data, closing, event_buffer,
                   render_start, control_flow, obs,
                   window, cursor_obs, clock, graphics>>

UpdateGame == MaybeUpdateGame(GameStatus)

-----------------------------------------------------------------------------
(* Engine::maybe_render and GraphicsData::maybe_render *)

\* self.game_data.as_ref().map(|gd| gd.game_info())
render_game_info(gdo) == IF IsSome(gdo) THEN Some(game_info(Unwrap(gdo))) ELSE None

RenderDecide ==
    /\ pc = "render"
    /\ IF now >= next_render_time(graphics_data)
       THEN /\ render_start' = Some([start |-> now,
                                     game_info |-> render_game_info(game_data)])
            /\ pc' = "rendering"
       ELSE /\ pc' = "closecheck"
            /\ UNCHANGED render_start
    /\ iter' = [iter EXCEPT !.render_decided = TRUE]
    /\ UNCHANGED <<now, pending, evt, ctl, game_data, graphics_data, cursor_data,
                   closing, event_buffer, next_tick, control_flow, obs,
                   window, cursor_obs, clock, graphics>>

RenderFinish ==
    /\ pc = "rendering"
    /\ graphics_data' = rendered(graphics_data, Unwrap(render_start).start)
    /\ render_start' = None
    /\ graphics' = [graphics EXCEPT !.frame = NoFrame]
    /\ iter' = [iter EXCEPT !.renders = iter.renders + 1]
    /\ pc' = "closecheck"
    /\ UNCHANGED <<now, pending, evt, ctl, game_data, cursor_data, closing,
                   event_buffer, next_tick, control_flow, obs,
                   window, cursor_obs, clock>>

-----------------------------------------------------------------------------
(* The end of the callback: the closing check and the next wake-up.  The     *)
(* callback's locals and the observations of the invocation end with it.     *)

next_loop_time(tick, render) ==
    IF IsSome(tick) THEN Min(Unwrap(tick), render) ELSE render

\* mutant: the callback schedules a wake-up although the flag is set
on_closing_keeps_waiting == [kind |-> "Poll", until |-> 0]

\* what the callback does when it finds the closing flag set
on_closing == [kind |-> "Exit", until |-> 0]

CloseCheck ==
    /\ pc = "closecheck"
    /\ IF closing
       THEN /\ control_flow' = on_closing
            /\ pc' = IF control_flow'.kind = "Exit" THEN "exited" ELSE "wait"
       ELSE /\ control_flow' =
                   [kind |-> "WaitUntil",
                    until |-> next_loop_time(next_tick, next_render_time(graphics_data))]
            /\ pc' = "wait"
    /\ next_tick' = None
    /\ iter' = NewIter(0)
    /\ UNCHANGED <<now, pending, evt, ctl, game_data, graphics_data, cursor_data,
                   closing, event_buffer, render_start, obs,
                   window, cursor_obs, clock, graphics>>

-----------------------------------------------------------------------------
(* The engine with an arbitrary host: events arrive at any time, and the     *)
(* callback may be invoked later than requested.                             *)

Next ==
    \/ Tick
    \/ Arrive
    \/ Deliver
    \/ Wake
    \/ Drain
    \/ GamePause
    \/ GameResume
    \/ GameClose
    \/ GameStartNew
    \/ AppClose
    \/ HandlerReturn
    \/ UpdateGame
    \/ RenderDecide
    \/ RenderFinish
    \/ CloseCheck

Spec == Init /\ [][Next]_vars

-----------------------------------------------------------------------------
(* The engine with a fair host: time advances as long as the clock of the    *)
(* model allows, the callback is invoked for a queued event and for a        *)
(* wake-up instant that has come (possibly late), and every step of the      *)
(* callback, the return of a handler and of the render callback included,    *)
(* is eventually taken.  What a handler does before it returns is up to the  *)
(* application, and so is the arrival of events.                             *)

\* the host invokes the callback
Invoked == Deliver \/ Wake

\* the callback, once invoked, runs to its end
CallbackStep ==
    \/ Drain
    \/ HandlerReturn
    \/ UpdateGame
    \/ RenderDecide
    \/ RenderFinish
    \/ CloseCheck

LoopFairness ==
    /\ SF_vars(Tick)
    /\ WF_vars(Invoked)
    /\ WF_vars(CallbackStep)

SpecLive == Init /\ [][Next]_vars /\ LoopFairness

-----------------------------------------------------------------------------
(* The engine with a timely host: the callback is invoked as soon as an      *)
(* event is queued or the requested wake-up instant has come, and each       *)
(* invocation takes less than one update period.  The session is started     *)
(* once, is not paused and does not end.                                     *)

UpdatePeriod == TickOffset(1, UPDATE_RATE)

\* the host sleeps: nothing is queued and the wake-up instant has not come
Sleep(horizon) ==
    /\ pending = 0
    /\ ~ wake_due
    /\ Advance({"wait"}, horizon)
    /\ UNCHANGED iter

\* application code takes time, within the invocation's budget
Busy(Places, horizon) ==
    /\ iter.busy + Quantum < UpdatePeriod
    /\ Advance(Places, horizon)
    /\ iter' = [iter EXCEPT !.busy = iter.busy + Quantum]

TimelyHorizon == MaxTimelyTime * Quantum

TimelySleep == Sleep(TimelyHorizon)
TimelyBusy == Busy({"handler", "rendering"}, TimelyHorizon)
TimelyUpdateGame == MaybeUpdateGame({"Running"})

TimelyNext ==
    \/ TimelySleep
    \/ TimelyBusy
    \/ Arrive
    \/ Deliver
    \/ Wake
    \/ Drain
    \/ GameStartNew
    \/ HandlerReturn
    \/ TimelyUpdateGame
    \/ RenderDecide
    \/ RenderFinish
    \/ CloseCheck

SpecTimely == Init /\ [][TimelyNext]_vars

-----------------------------------------------------------------------------
(* The scenario of a session started at t = 0, paused at t = 0.5 s and       *)
(* resumed at t = 0.7 s, run with a timely host until t = 1.6 s.  Event      *)
(* handlers may take time, within the invocation's budget; the session does  *)
(* not end.                                                                   *)

Tenths(n) == (n * UnitsPerSec) \div 10

ScenarioStartAt == 0
ScenarioPauseAt == Tenths(5)
ScenarioResumeAt == Tenths(7)
ScenarioEnd == Tenths(16)

ScenarioSleep == Sleep(ScenarioEnd)
ScenarioBusy == Busy({"handler"}, ScenarioEnd)
ScenarioStart == now = ScenarioStartAt /\ GameStartNew
ScenarioPause == now = ScenarioPauseAt /\ GamePause
ScenarioResume == now = ScenarioResumeAt /\ GameResume
ScenarioUpdateGame == MaybeUpdateGame({"Running"})

ScenarioNext ==
    \/ ScenarioSleep
    \/ ScenarioBusy
    \/ Arrive
    \/ Deliver
    \/ Wake
    \/ Drain
    \/ ScenarioStart
    \/ ScenarioPause
    \/ ScenarioResume
    \/ HandlerReturn
    \/ ScenarioUpdateGame
    \/ RenderDecide
    \/ RenderFinish
    \/ CloseCheck

SpecScenario == Init /\ [][ScenarioNext]_vars

-----------------------------------------------------------------------------
(* The engine with an application that uses the cursor controllers.  The     *)
(* cursor does not depend on the clocks: wall time stands still and no       *)
(* session is opened.                                                        *)

CursorNext ==
    \/ Arrive
    \/ Deliver
    \/ Wake
    \/ Drain
    \/ CursorCapture
    \/ CursorHide
    \/ CursorFree
    \/ CursorShow
    \/ CursorShowCaptured
    \/ CursorPosition
    \/ HandlerReturn
    \/ UpdateGame
    \/ RenderDecide
    \/ RenderFinish
    \/ CloseCheck

SpecCursor == Init /\ [][CursorNext]_vars

-----------------------------------------------------------------------------
(* The engine with a window that is resized and an application that draws.   *)
(* The optimal window size of the application is any size, zero and negative *)
(* extents included; no session is opened, the clock stands still, and the  *)
(* application draws one thing on the overlay of a frame.                    *)

Sizes == [width : (0 - 1) .. MaxSize, height : (0 - 1) .. MaxSize]

FovTangents == {Frac(1, 2), Whole(1), Whole(2)}

Projections ==
    {[kind |-> "Central", y_fov |-> t, height |-> Whole(0),
      near |-> Whole(1), far |-> Whole(2)] : t \in FovTangents}
    \cup {[kind |-> "Orthogonal", y_fov |-> Whole(0), height |-> Whole(h),
           near |-> Whole(1), far |-> Whole(2)] : h \in 1 .. 2}

InitGraphics ==
    /\ InitEngine
    /\ clock = NoClock
    /\ graphics \in {new_graphics(size) : size \in Sizes}

GraphicsFrame == <<now, pc, pending, evt, ctl, game_data, graphics_data,
                   cursor_data, closing, event_buffer, next_tick, render_start,
                   control_flow, iter, obs, window, cursor_obs, clock>>

\* handle_event, WindowEvent::Resized: the callback is invoked with a resize
Resize ==
    /\ pc = "wait"
    /\ pending > 0
    /\ pending' = pending - 1
    /\ \E size \in Sizes : graphics' = set_view_port_size(graphics, size)
    /\ no_emit(0)
    /\ iter' = NewIter(pending - 1)
    /\ UNCHANGED <<now, game_data, graphics_data, cursor_data, closing, next_tick,
                   render_start, control_flow, obs, window, cursor_obs, clock>>

\* SceneRenderer::start_object_rendering with the camera of the settings
StartObjectRendering ==
    /\ pc = "rendering"
    /\ graphics.frame.stage = "none"
    /\ \E p \in Projections :
          graphics' = [graphics EXCEPT
              !.frame.stage = "objects",
              !.frame.world_to_screen =
                  Some([projection |-> p,
                        matrix |-> as_matrix(p, graphics.screen_ratio,
                                             optimal_screen_ratio(graphics))])]
    /\ UNCHANGED GraphicsFrame

\* SceneObjectRenderer::start_overlay_rendering
StartOverlayRendering ==
    /\ pc = "rendering"
    /\ graphics.frame.stage = "objects"
    /\ graphics' = [graphics EXCEPT
           !.frame.stage = "overlay",
           !.frame.overlay_to_screen =
               Some(overlay_to_screen_matrix(graphics.screen_ratio,
                                             graphics.optimal_window_size))]
    /\ UNCHANGED GraphicsFrame

\* OverlayRenderer::draw_text
DrawText ==
    /\ pc = "rendering"
    /\ graphics.frame.stage = "overlay"
    /\ graphics.frame.drawn = None
    /\ \E line_number \in 0 .. MaxLine :
          IF ~ line_in_range(line_number)
          THEN /\ pc' = "panicked"
               /\ graphics' = [graphics EXCEPT !.frame.drawn =
                      Some([kind |-> "assert", line_number |-> line_number])]
          ELSE IF lines_below(line_number) < 0
          THEN /\ pc' \in {"panicked", "rendering"}
               /\ graphics' = [graphics EXCEPT !.frame.drawn =
                      Some([kind |-> "overflow", line_number |-> line_number])]
          ELSE /\ pc' = pc
               /\ graphics' = [graphics EXCEPT !.frame.drawn =
                      Some(draw_text(line_number))]
    /\ UNCHANGED <<now, pending, evt, ctl, game_data, graphics_data,
                   cursor_data, closing, event_buffer, next_tick, render_start,
                   control_flow, iter, obs, window, cursor_obs, clock>>

\* OverlayRenderer::draw_textureless / draw_textured with an alignment
DrawAligned ==
    /\ pc = "rendering"
    /\ graphics.frame.stage = "overlay"
    /\ graphics.frame.drawn = None
    /\ \E alignment \in OverlayAlignment :
          graphics' = [graphics EXCEPT !.frame.drawn =
              Some(draw_aligned(Unwrap(graphics.frame.overlay_to_screen), alignment,
                                graphics.screen_ratio, graphics.optimal_window_size))]
    /\ UNCHANGED GraphicsFrame

GraphicsNext ==
    \/ Arrive
    \/ Resize
    \/ Wake
    \/ Drain
    \/ UpdateGame
    \/ RenderDecide
    \/ StartObjectRendering
    \/ StartOverlayRendering
    \/ DrawText
    \/ DrawAligned
    \/ RenderFinish
    \/ CloseCheck

SpecGraphics == InitGraphics /\ [][GraphicsNext]_vars

-----------------------------------------------------------------------------
(* A schedule of next_tick_time on its own: any rate, a reference instant at *)
(* either end of a second, and the tick count going up one by one.           *)

Rates == 1 .. MaxRate

ReferenceInstants ==
    {[secs |-> 0, nanos |-> 0],
     [secs |-> 1, nanos |-> NANOS_PER_SEC \div 2],
     [secs |-> 2, nanos |-> NANOS_PER_SEC - 1]}

InitClock ==
    /\ InitEngine
    /\ graphics = DefaultGraphics
    /\ clock \in [reference : ReferenceInstants, num_ticks : {0}, tick_rate : Rates]

\* num_ticks += 1 (num_updates in maybe_update, num_renders in maybe_render)
ClockTick ==
    /\ clock.num_ticks < MaxTicks
    /\ clock' = [clock EXCEPT !.num_ticks = clock.num_ticks + 1]
    /\ UNCHANGED <<now, pc, pending, evt, ctl, game_data, graphics_data,
                   cursor_data, closing, event_buffer, next_tick, render_start,
                   control_flow, iter, obs, window, cursor_obs, graphics>>

ClockNext == ClockTick

SpecClock == InitClock /\ [][ClockNext]_vars

-----------------------------------------------------------------------------
(* Steps and states the properties speak about *)

SessionOpen == IsSome(game_data)
SessionPaused == SessionOpen /\ paused(Unwrap(game_data))
SessionEnded == SessionOpen /\ Unwrap(game_data).ended

\* a step in which the simulation's update is invoked
UpdatePerformed ==
    /\ IsSome(game_data)
    /\ IsSome(game_data')
    /\ Unwrap(game_data').game = Unwrap(game_data).game + 1

\* a step in which a render completes
RenderPerformed == graphics_data'.num_renders = graphics_data.num_renders + 1

PauseStep == ctl.game = "Running" /\ ctl'.game = "Paused"
ResumeStep == ctl.game = "Paused" /\ ctl'.game = "Running"
StartStep == ctl.game = "Closed" /\ ctl'.game = "Running"

\* the events dispatched before the update check
DispatchEvents == {"CloseRequested", "WindowFocusChanged", "CursorMoved", "ControlEvent"}

-----------------------------------------------------------------------------
(* C1: a pause at p followed by a resume at r >= p leaves the tick count as  *)
(* it was at the pause, clears pause_start and moves the next scheduled      *)
(* update instant by exactly r - p; over all pause/resume cycles the update  *)
(* reference instant is the start instant plus the total paused wall time.   *)

C1_ResumeShiftsSchedule ==
    ResumeStep =>
        /\ IsSome(game_data')
        /\ Unwrap(game_data').num_updates = obs.pause_n
        /\ Unwrap(game_data').pause_start = None
        /\ IsSome(obs.pause_nut)
        /\ now >= obs.pause_at
        /\ next_update_time(Unwrap(game_data')) =
               Some(Unwrap(obs.pause_nut) + (now - obs.pause_at))

C1_ReferenceIsStartPlusPaused ==
    SessionOpen =>
        Unwrap(game_data).update_ref_time = obs.started_at + obs.paused_total

C1_PauseResume ==
    /\ [][C1_ResumeShiftsSchedule]_vars
    /\ [](C1_ReferenceIsStartPlusPaused)

\* a session just resumed after a pause of positive length, with updates
\* before it
C1_Witness ==
    /\ SessionOpen
    /\ pc = "handler"
    /\ ctl.game = "Running"
    /\ ctl.app = "Partial"
    /\ ~ paused(Unwrap(game_data))
    /\ obs.paused_total > 0
    /\ Unwrap(game_data).num_updates > 0

-----------------------------------------------------------------------------
(* C2: while the session is paused or ended no update is invoked and the     *)
(* tick count does not change, however far time advances, and the next       *)
(* scheduled update instant is None.                                         *)

SessionInactive == SessionPaused \/ SessionEnded

C2_NoUpdateStep ==
    SessionInactive =>
        /\ ~ UpdatePerformed
        /\ IsSome(game_data') =>
               Unwrap(game_data').num_updates = Unwrap(game_data).num_updates
        /\ pc = "update" => next_tick' = None /\ evt' # "GameUpdated"

C2_InactiveNeverUpdated ==
    /\ [][C2_NoUpdateStep]_vars
    /\ [](SessionInactive => next_update_time(Unwrap(game_data)) = None)

\* the update check has just passed over a paused session whose tick is overdue
C2_Witness ==
    /\ SessionPaused
    /\ pc = "render"
    /\ iter.updates = 0
    /\ now > next_tick_time(Unwrap(game_data).update_ref_time,
                            Unwrap(game_data).num_updates,
                            Unwrap(game_data).update_rate)

-----------------------------------------------------------------------------
(* C5: start_new runs only on an empty session slot: a Closed controller     *)
(* exists only while there is no session, so no open session is overwritten. *)

C5_StartOnlyWhenEmpty ==
    /\ [](ctl.game = "Closed" => game_data = None)
    /\ [][StartStep => game_data = None /\ IsSome(game_data')]_vars
    /\ [][(IsSome(game_data) /\ IsSome(game_data')) =>
              /\ Unwrap(game_data').game >= Unwrap(game_data).game
              /\ obs'.started_at = obs.started_at]_vars

\* a second session has just been started, after the first was closed
C5_Witness ==
    /\ pc = "handler"
    /\ ctl.game = "Running"
    /\ ctl.app = "Partial"
    /\ SessionOpen
    /\ Unwrap(game_data).num_updates = 0
    /\ Unwrap(game_data).update_ref_time = now
    /\ now > 0
    /\ evt = "GameUpdated"

-----------------------------------------------------------------------------
(* C6: the session becomes Ended only in an update step on an open session   *)
(* that is neither paused nor ended; from Ended the session can only be      *)
(* closed: it is never updated, paused or resumed.                           *)

C6_EndedOnlyByUpdate ==
    (~ SessionEnded /\ SessionEnded') =>
        /\ pc = "update"
        /\ SessionOpen
        /\ ~ SessionPaused
        /\ UpdatePerformed
        /\ evt' = "GameUpdated"

C6_EndedOnlyCloses ==
    SessionEnded => game_data' = game_data \/ game_data' = None

C6_EndedIsTerminal ==
    /\ [][C6_EndedOnlyByUpdate]_vars
    /\ [][C6_EndedOnlyCloses]_vars
    /\ [](SessionEnded => ctl.game \in {"Ended", "None"})

\* an ended session is offered to a later event handler, its next tick due
C6_Witness ==
    /\ SessionEnded
    /\ pc = "handler"
    /\ evt = "ControlEvent"
    /\ ctl.game = "Ended"
    /\ now >= Unwrap(game_data).update_ref_time
                + TickOffset(Unwrap(game_data).num_updates, UPDATE_RATE)

-----------------------------------------------------------------------------
(* C7 as claimed: once the closing flag is set, no update and no render is   *)
(* performed afterwards, not even in the rest of that callback invocation.   *)

-----------------------------------------------------------------------------
(* C8: a callback invocation performs at most one update and at most one     *)
(* render, however many scheduled instants have passed, and decides on the   *)
(* update before it decides on the render.                                   *)

C8_OncePerIteration ==
    /\ iter.updates <= 1
    /\ iter.renders <= 1
    /\ ~ iter.render_before_update
    /\ iter.render_decided => iter.update_decided
    /\ pc \in {"render", "rendering"} => iter.update_decided

\* one update and one render done, and both schedules are due again
C8_Witness ==
    /\ pc = "closecheck"
    /\ iter.updates = 1
    /\ iter.renders = 1
    /\ SessionOpen
    /\ update_due(Unwrap(game_data))
    /\ now >= next_render_time(graphics_data)

-----------------------------------------------------------------------------
(* C9 as claimed: the wake-up instant requested at the end of an invocation  *)
(* is the minimum of the next render instant and the next update instant of  *)
(* the session as it then stands, whatever the handlers did.                 *)

current_next_update == IF SessionOpen THEN next_update_time(Unwrap(game_data)) ELSE None

C9_WakeUpIsMinOfSchedules ==
    [][pc = "closecheck" /\ ~ closing =>
           /\ control_flow'.kind = "WaitUntil"
           /\ control_flow'.until =
                  next_loop_time(current_next_update, next_render_time(graphics_data))]_vars

-----------------------------------------------------------------------------
(* C10 as claimed: every external event pending when the invocation began is *)
(* dispatched before its update and render decisions.                        *)

C10_QueueDrainedBeforeUpdate ==
    (iter.update_decided \/ iter.render_decided) => iter.leftover = 0

(* C10 as amended: an invocation handles the one external event it is given  *)
(* and dispatches every control event in the buffer before its update and    *)
(* render decisions; other queued external events wait for later             *)
(* invocations.                                                              *)

C10_DispatchBeforeUpdate ==
    /\ (pc \in {"update", "render", "rendering", "closecheck"} \/ iter.update_decided)
           => event_buffer = 0
    /\ evt \in DispatchEvents => ~ iter.update_decided /\ ~ iter.render_decided
    /\ iter.update_decided => evt \in {"None", "GameUpdated"}

\* a control event is being dispatched while another one is buffered and an
\* external event is still queued
C10_Witness ==
    /\ pc = "handler"
    /\ evt = "ControlEvent"
    /\ event_buffer >= 1
    /\ iter.leftover >= 1

-----------------------------------------------------------------------------
(* C3: with a timely host, for a session started at t0 that is never paused  *)
(* and never ends, the number of updates performed by wall time t0 + T       *)
(* differs from floor(T * 50) by at most one.                                *)

\* floor(T * rate) for a duration T in units
TicksIn(T, rate) == (T * rate) \div UnitsPerSec

C3_UpdateCountTracksTime ==
    SessionOpen =>
        LET N == Unwrap(game_data).num_updates
            F == TicksIn(now - obs.started_at, UPDATE_RATE)
        IN  /\ N <= F + 1
            /\ F <= N + 1

\* three periods after the start, in an invocation that runs late
C3_Witness ==
    /\ SessionOpen
    /\ now - obs.started_at >= 3 * UpdatePeriod
    /\ Unwrap(game_data).num_updates = TicksIn(now - obs.started_at, UPDATE_RATE)
    /\ update_due(Unwrap(game_data))
    /\ pc = "handler"
    /\ iter.busy > 0

-----------------------------------------------------------------------------
(* C4 as claimed: with update rate 50, a session started at t = 0, paused at *)
(* t = 0.5 s and resumed at t = 0.7 s has performed 50 updates when wall     *)
(* time reaches t = 1.60 s.                                                  *)

ScenarioDone ==
    /\ now = ScenarioEnd
    /\ SessionOpen
    /\ ~ SessionPaused
    /\ obs.started_at = ScenarioStartAt
    /\ obs.paused_total = ScenarioResumeAt - ScenarioPauseAt

C4_FiftyUpdates == ScenarioDone => Unwrap(game_data).num_updates = 50

(* C4 as amended: that session has performed 70 updates when wall time       *)
(* reaches t = 1.60 s (1.40 s of active time at rate 50), and 71 once the    *)
(* update scheduled at t = 1.60 s itself has been performed.                 *)

C4_SeventyUpdates ==
    ScenarioDone =>
        /\ Unwrap(game_data).num_updates \in {70, 71}
        /\ Unwrap(game_data).num_updates = 70 <=> update_due(Unwrap(game_data))

\* the scenario has run to t = 1.60 s and the update due then is still to come
C4_Witness ==
    /\ ScenarioDone
    /\ Unwrap(game_data).num_updates = 70
    /\ pc = "wait"

-----------------------------------------------------------------------------
(* C12 as claimed: from Free with tracked position q, capture then free ends *)
(* in Free; hide then show ends in Free with the OS cursor at q; hide then   *)
(* show_captured ends in Captured with the OS cursor at q; the tracked       *)
(* position is still q afterwards, whatever cursor moves the OS reported     *)
(* while the cursor was Hidden.                                              *)

\* the handler has shown a cursor that was hidden at position hide_pos
CursorJustShown ==
    /\ pc = "handler"
    /\ IsSome(cursor_obs.hide_pos)
    /\ ctl.cursor \in {"Free", "Captured"}

C12_RoundTripsRestore ==
    /\ [](CursorJustShown =>
             /\ ctl.cursor = "Free" <=> cursor_data.mode = "Normal"
             /\ ctl.cursor = "Captured" <=> cursor_data.mode = "Captured"
             /\ cursor_data.pos = Unwrap(cursor_obs.hide_pos)
             /\ window.cursor = Unwrap(cursor_obs.hide_pos))
    /\ [][(ctl.cursor = "Captured" /\ ctl'.cursor = "Free") =>
              cursor_data' = [pos |-> cursor_data.pos, mode |-> "Normal"]]_vars
    /\ [][(ctl.cursor = "Free" /\ ctl'.cursor = "Captured") =>
              cursor_data' = [pos |-> cursor_data.pos, mode |-> "Captured"]]_vars

-----------------------------------------------------------------------------
(* C13: while the cursor mode is Hidden, an OS cursor-move event leaves the  *)
(* tracked position and the mode unchanged and dispatches no cursor-moved    *)
(* event to the application.                                                 *)

C13_HiddenIgnoresMoves ==
    [][(cursor_data.mode = "Hidden" /\ pc = "wait") =>
           /\ cursor_data' = cursor_data
           /\ evt' # "CursorMoved"
           /\ window'.cursor # window.cursor => (pc' = "drain" /\ evt' = "None")]_vars

\* a cursor move to another position has been delivered while Hidden, and the
\* callback has gone on to the control events
C13_Witness ==
    /\ cursor_data.mode = "Hidden"
    /\ pc = "drain"
    /\ cursor_obs.moved
    /\ window.cursor # cursor_data.pos
    /\ cursor_data.pos = Unwrap(cursor_obs.hide_pos)

-----------------------------------------------------------------------------
(* C14: after any sequence of cursor transitions from Free, provided every   *)
(* OS call succeeded, the pointer grab is enabled exactly when the mode is   *)
(* Captured or Hidden and the cursor is visible exactly when the mode is not *)
(* Hidden.                                                                   *)

C14_GrabAndVisibility ==
    cursor_obs.os_ok =>
        /\ window.grab <=> cursor_data.mode \in {"Captured", "Hidden"}
        /\ window.visible <=> cursor_data.mode # "Hidden"

\* show_captured has just brought a hidden cursor back, every call succeeding
C14_Witness ==
    /\ cursor_obs.os_ok
    /\ pc = "handler"
    /\ ctl.cursor = "Captured"
    /\ IsSome(cursor_obs.hide_pos)
    /\ window.grab
    /\ window.visible

-----------------------------------------------------------------------------
(* C15: the cursor controller variant lent for a dispatch matches the stored *)
(* mode; the mode changes only through capture, hide (from Free or           *)
(* Captured), free, show and show_captured, never through an external event; *)
(* a position query is offered only in Free and Captured and returns the     *)
(* last tracked position.                                                    *)

CursorTransitions ==
    {<<"Free", "Captured">>, <<"Free", "Hidden">>, <<"Captured", "Hidden">>,
     <<"Captured", "Free">>, <<"Hidden", "Free">>, <<"Hidden", "Captured">>}

C15_VariantMatchesMode ==
    ctl.cursor # "None" =>
        /\ ctl.cursor = "Free" <=> cursor_data.mode = "Normal"
        /\ ctl.cursor = "Captured" <=> cursor_data.mode = "Captured"
        /\ ctl.cursor = "Hidden" <=> cursor_data.mode = "Hidden"

C15_ModeStep ==
    cursor_data'.mode # cursor_data.mode =>
        /\ pc = "handler"
        /\ pc' = "handler"
        /\ <<ctl.cursor, ctl'.cursor>> \in CursorTransitions

C15_QueryStep ==
    (cursor_obs'.query # cursor_obs.query /\ IsSome(cursor_obs'.query)) =>
        /\ ctl.cursor \in {"Free", "Captured"}
        /\ cursor_data.mode # "Hidden"
        /\ Unwrap(cursor_obs'.query) = cursor_obs.tracked

C15_CursorTypestate ==
    /\ [](C15_VariantMatchesMode)
    /\ [][C15_ModeStep]_vars
    /\ [][C15_QueryStep]_vars

\* a position query on the Captured controller, after the cursor was hidden,
\* moved by the OS and shown again
C15_Witness ==
    /\ pc = "handler"
    /\ ctl.cursor = "Captured"
    /\ IsSome(cursor_obs.query)
    /\ IsSome(cursor_obs.hide_pos)
    /\ cursor_obs.moved
    /\ Unwrap(cursor_obs.query) = Unwrap(cursor_obs.hide_pos)

-----------------------------------------------------------------------------
(* C11: a session transition made by a handler during the event dispatch of  *)
(* an invocation is in effect at that invocation's update check: after pause *)
(* or close no update is performed in it even if one was due, and after      *)
(* start_new or resume the check uses the schedule of the session as the     *)
(* handler left it.                                                          *)

\* the next tick of session gd has come, by its own schedule
tick_has_come(gd) ==
    now >= gd.update_ref_time + TickOffset(gd.num_updates, gd.update_rate)

C11_UpdateCheckStep ==
    pc = "update" =>
        /\ iter.transition \in {"pause", "close"} =>
               /\ ~ UpdatePerformed
               /\ game_data' = game_data
               /\ evt' # "GameUpdated"
        /\ iter.transition \in {"start_new", "resume"} =>
               /\ SessionOpen
               /\ UpdatePerformed <=> tick_has_come(Unwrap(game_data))
        /\ iter.transition = "start_new" => UpdatePerformed

C11_TransitionsInEffect ==
    /\ [][C11_UpdateCheckStep]_vars
    /\ [][pc = "drain" => game_data' = game_data]_vars

\* the handler paused a session whose tick was due, and the update check of
\* the same invocation has passed without an update
C11_Witness ==
    /\ pc = "render"
    /\ iter.transition = "pause"
    /\ iter.update_decided
    /\ iter.updates = 0
    /\ SessionPaused
    /\ obs.pause_at >= Unwrap(game_data).update_ref_time
                         + TickOffset(Unwrap(game_data).num_updates, UPDATE_RATE)

-----------------------------------------------------------------------------
(* C16 as claimed: after any render completes, the next scheduled render     *)
(* instant is strictly later than the instant at which the render finished,  *)
(* so that no render follows in the next invocation without a wait.          *)

C16_NextRenderAfterFinish ==
    [][RenderPerformed => next_render_time(graphics_data') > now']_vars

-----------------------------------------------------------------------------
(* C17: a render of duration d moves the render phase forward by exactly     *)
(* d - 3 ms when d > 10 ms and leaves it unchanged when d <= 10 ms; the      *)
(* phase never decreases and the next scheduled render instant never moves   *)
(* backwards.                                                                *)

C17_RenderStep ==
    RenderPerformed =>
        LET d == now - Unwrap(render_start).start IN
        /\ d > Millis(OVERRUN_MILLIS) =>
               graphics_data'.render_phase =
                   graphics_data.render_phase + d - Millis(MARGIN_MILLIS)
        /\ d <= Millis(OVERRUN_MILLIS) =>
               graphics_data'.render_phase = graphics_data.render_phase

C17_PhaseShift ==
    /\ [][C17_RenderStep]_vars
    /\ [][graphics_data'.render_phase >= graphics_data.render_phase]_vars
    /\ [][next_render_time(graphics_data') >= next_render_time(graphics_data)]_vars

\* a render that took longer than 10 ms has just completed
C17_Witness ==
    /\ pc = "closecheck"
    /\ iter.renders = 1
    /\ graphics_data.render_phase > 0
    /\ graphics_data.render_phase + Millis(MARGIN_MILLIS) > Millis(OVERRUN_MILLIS)

-----------------------------------------------------------------------------
(* C18: close() on a Running, Paused or Ended controller leaves the session  *)
(* slot empty; from then until start_new is called no update is performed    *)
(* and the render callback is given no session snapshot.                     *)

CloseStep == ctl.game \in {"Running", "Paused", "Ended"} /\ ctl'.game = "Closed"

C18_EmptySlotStep ==
    game_data = None =>
        /\ ~ UpdatePerformed
        /\ evt' = "GameUpdated" => evt = "GameUpdated"
        /\ IsSome(game_data') => StartStep

C18_CloseEmptiesSlot ==
    /\ [][CloseStep => game_data' = None]_vars
    /\ [][C18_EmptySlotStep]_vars
    /\ []((pc = "rendering" /\ game_data = None) =>
              Unwrap(render_start).game_info = None)

\* a handler closed the session, and the same invocation has passed its update
\* check without an update and is rendering without a snapshot
C18_Witness ==
    /\ pc = "rendering"
    /\ iter.transition = "close"
    /\ iter.update_decided
    /\ iter.updates = 0
    /\ game_data = None
    /\ Unwrap(render_start).game_info = None
    /\ now > 0

-----------------------------------------------------------------------------
(* C19: after start_new at instant t the session exists with update          *)
(* reference instant t, tick count 0, rate 50, not paused and not ended; its *)
(* first update is scheduled at t and is due at the next update check.       *)

C19_StartStep ==
    StartStep =>
        /\ game_data' = Some([game |-> 0, pause_start |-> None, ended |-> FALSE,
                              update_ref_time |-> now, num_updates |-> 0,
                              update_rate |-> 50])
        /\ next_update_time(Unwrap(game_data')) = Some(now)

C19_FirstUpdateStep ==
    (/\ pc = "update"
     /\ SessionOpen
     /\ ~ SessionInactive
     /\ Unwrap(game_data).num_updates = 0) =>
        /\ UpdatePerformed
        /\ Unwrap(game_data').num_updates = 1

C19_StartNewSchedule ==
    /\ [][C19_StartStep]_vars
    /\ [][C19_FirstUpdateStep]_vars

\* a session started by the handler of an event dispatched at t > 0
C19_Witness ==
    /\ pc = "handler"
    /\ evt \in DispatchEvents
    /\ iter.transition = "start_new"
    /\ ctl.game = "Running"
    /\ SessionOpen
    /\ Unwrap(game_data).update_ref_time = now
    /\ Unwrap(game_data).num_updates = 0
    /\ now > 0

-----------------------------------------------------------------------------
(* C20: for every rate r > 0, reference instant and tick count n, the        *)
(* scheduled instant is the reference plus floor(n * 10^9 / r) nanoseconds:  *)
(* computed from n each time, it is at most n/r and less than 1 ns below it, *)
(* with no error building up over the ticks, and it does not decrease as n   *)
(* grows.                                                                    *)

scheduled(c) == next_tick_instant(c.reference, c.num_ticks, c.tick_rate)

\* instant a is not later than instant b
NotLater(a, b) == a.secs < b.secs \/ (a.secs = b.secs /\ a.nanos <= b.nanos)

\* the offset o is floor(n * 10^9 / r) ns: with n = r * o.secs + c seconds and
\* 10^9 = r * q + m, the error n * 10^9 - r * (o in ns) is c * m - r * e,
\* where e is o.nanos - c * q
IsFloorOfTicksOverRate(o, n, r) ==
    LET c == n - r * o.secs
        q == NANOS_PER_SEC \div r
        m == NANOS_PER_SEC % r
        e == o.nanos - c * q
    IN  /\ o.secs >= 0
        /\ o.nanos \in 0 .. (NANOS_PER_SEC - 1)
        /\ c \in 0 .. (r - 1)
        /\ e \in 0 .. r
        /\ c * m - r * e \in 0 .. (r - 1)

C20_ScheduledIsReferencePlusOffset ==
    \E o \in {duration_div(from_secs(clock.num_ticks), clock.tick_rate)} :
        /\ IsFloorOfTicksOverRate(o, clock.num_ticks, clock.tick_rate)
        /\ NotLater(clock.reference, scheduled(clock))
        /\ scheduled(clock).nanos \in 0 .. (NANOS_PER_SEC - 1)

C20_ScheduleIsExact ==
    /\ [](C20_ScheduledIsReferencePlusOffset)
    /\ [][NotLater(scheduled(clock), scheduled(clock'))]_vars

\* tick 100 at rate 60 from 2.999999999 s: 1.666666666 s later, the
\* nanoseconds carrying into the seconds
C20_Witness ==
    /\ clock.tick_rate = 60
    /\ clock.num_ticks = 100
    /\ clock.reference = [secs |-> 2, nanos |-> NANOS_PER_SEC - 1]
    /\ scheduled(clock) = [secs |-> 4, nanos |-> 666666665]

-----------------------------------------------------------------------------
(* C21: after any sequence of resizes, whatever width and height they        *)
(* report, zero and negative ones included, the stored screen ratio is       *)
(* max(width, 1) / max(height, 1) of the last resize and is strictly         *)
(* positive, and the optimal ratio fixed at startup is strictly positive.    *)
(* Checked under SpecGraphics.                                               *)

C21_RatiosClamped ==
    /\ FPositive(optimal_screen_ratio(graphics))
    /\ FPositive(graphics.screen_ratio)
    /\ \A size \in Sizes :
          graphics.resized = Some(size) =>
              LET w == IF size.width >= 1 THEN size.width ELSE 1
                  h == IF size.height >= 1 THEN size.height ELSE 1
              IN  /\ graphics.screen_ratio.n * h = w * graphics.screen_ratio.d
                  /\ graphics.screen_ratio.d > 0

\* the window was last resized to a width of 2 and a negative height
C21_Witness ==
    /\ graphics.resized = Some([width |-> 2, height |-> 0 - 1])
    /\ graphics.screen_ratio = Whole(2)

-----------------------------------------------------------------------------
(* C22: for a central projection with field of view fov, the field of view   *)
(* used is fov itself when the screen ratio equals the optimal ratio; when   *)
(* the screen ratio is greater, the field of view used is strictly smaller   *)
(* and tan(cropped / 2) * screen_ratio = tan(fov / 2) * optimal_ratio.       *)
(* Angles are compared by the tangent of their half.  Checked under          *)
(* SpecGraphics on the projection the object renderer was built with.        *)

CameraOf(kind) ==
    IF graphics.frame.world_to_screen # None
       /\ Unwrap(graphics.frame.world_to_screen).projection.kind = kind
    THEN graphics.frame.world_to_screen
    ELSE None

C22_CentralCrops ==
    \A c \in {CameraOf("Central")} \ {None} :
        LET p == Unwrap(c).projection
            m == Unwrap(c).matrix
            sr == graphics.screen_ratio
            optimal == optimal_screen_ratio(graphics)
        IN  /\ m.kind = "PerspectiveFov"
            /\ sr = optimal => m.fovy = p.y_fov
            /\ FLess(optimal, sr) =>
                   /\ FLess(m.fovy, p.y_fov)
                   /\ FMul(m.fovy, sr) = FMul(p.y_fov, optimal)

\* a window twice as wide as high for a square optimal size: the tangent
\* of the half field of view is halved
C22_Witness ==
    /\ CameraOf("Central") # None
    /\ graphics.screen_ratio = Whole(2)
    /\ optimal_screen_ratio(graphics) = Whole(1)
    /\ Unwrap(graphics.frame.world_to_screen).projection.y_fov = Whole(1)
    /\ Unwrap(graphics.frame.world_to_screen).matrix.fovy = Frac(1, 2)

-----------------------------------------------------------------------------
(* C23: for an orthogonal projection with d = height / 2, the box has        *)
(* half-width d * optimal_ratio and half-height d / screen_ratio when the    *)
(* screen ratio is greater than the optimal ratio, and half-width            *)
(* d * screen_ratio and half-height d otherwise; it is symmetric about the   *)
(* origin in both axes.  Checked under SpecGraphics.                         *)

C23_OrthogonalBox ==
    \A c \in {CameraOf("Orthogonal")} \ {None} :
        LET p == Unwrap(c).projection
            m == Unwrap(c).matrix
            sr == graphics.screen_ratio
            optimal == optimal_screen_ratio(graphics)
            d == FMul(p.height, Frac(1, 2))
        IN  /\ m.kind = "Ortho"
            /\ m.left = FNeg(m.right)
            /\ m.bottom = FNeg(m.top)
            /\ IF FLess(optimal, sr)
               THEN m.right = FMul(d, optimal) /\ FMul(m.top, sr) = d
               ELSE m.right = FMul(d, sr) /\ m.top = d

\* a box of height 2 in a window twice as wide as high, optimal size square
C23_Witness ==
    /\ CameraOf("Orthogonal") # None
    /\ graphics.screen_ratio = Whole(2)
    /\ optimal_screen_ratio(graphics) = Whole(1)
    /\ Unwrap(graphics.frame.world_to_screen).projection.height = Whole(2)
    /\ Unwrap(graphics.frame.world_to_screen).matrix.right = Whole(1)
    /\ Unwrap(graphics.frame.world_to_screen).matrix.top = Frac(1, 2)

-----------------------------------------------------------------------------
(* C24: the overlay-to-screen transform maps the rectangle [0, W] x [0, H]   *)
(* of the optimal size to a rectangle centred on the origin of clip space    *)
(* and contained in [-1, 1] x [-1, 1]: when screen_ratio / optimal_ratio > 1 *)
(* it spans the full height and x from -optimal_ratio / screen_ratio to      *)
(* optimal_ratio / screen_ratio, otherwise it spans the full width and y     *)
(* from -screen_ratio / optimal_ratio to screen_ratio / optimal_ratio.       *)
(* Checked under SpecGraphics on the matrix the overlay renderer holds.      *)

C24_OverlayRectangle ==
    \A o \in {graphics.frame.overlay_to_screen} \ {None} :
        LET m == Unwrap(o)
            size == graphics.optimal_window_size
            sr == graphics.screen_ratio
            optimal == optimal_screen_ratio(graphics)
            lo == to_screen(m, Whole(0), Whole(0))
            hi == to_screen(m, Whole(size.width), Whole(size.height))
        IN  /\ lo.x = FNeg(hi.x)
            /\ lo.y = FNeg(hi.y)
            /\ FPositive(hi.x) /\ FLessEq(hi.x, Whole(1))
            /\ FPositive(hi.y) /\ FLessEq(hi.y, Whole(1))
            /\ IF FLess(optimal, sr)
               THEN hi.y = Whole(1) /\ FMul(hi.x, sr) = optimal
               ELSE hi.x = Whole(1) /\ FMul(hi.y, optimal) = sr

\* an optimal size of 1 x 2 in a window of ratio 2: bars left and right
C24_Witness ==
    /\ graphics.frame.stage = "overlay"
    /\ graphics.optimal_window_size = [width |-> 1, height |-> 2]
    /\ graphics.screen_ratio = Whole(2)
    /\ to_screen(Unwrap(graphics.frame.overlay_to_screen), Whole(1), Whole(2))
           = [x |-> Frac(1, 4), y |-> Whole(1)]

-----------------------------------------------------------------------------
(* C25: for every screen ratio, an overlay object drawn with the alignment   *)
(* Center has its local origin at the centre of the window, and an object    *)
(* drawn with a corner alignment has its local origin at the corresponding   *)
(* corner of the window, bars included.  Checked under SpecGraphics on the   *)
(* clip-space point the origin of the object drawn last is sent to.          *)

AlignedDrawn ==
    IF graphics.frame.drawn # None /\ Unwrap(graphics.frame.drawn).kind = "aligned"
    THEN graphics.frame.drawn
    ELSE None

ClipPoint(x, y) == [x |-> Whole(x), y |-> Whole(y)]

-----------------------------------------------------------------------------
(* C26: draw_text panics whenever the line number is TEXT_NUM_LINES (50) or  *)
(* more, before the arithmetic on the line number can overflow and before    *)
(* anything is drawn, and never panics on the line number when it is less    *)
(* than 50.  Checked under SpecGraphics on every step that calls draw_text.  *)

TextCalled ==
    /\ graphics.frame.drawn = None
    /\ graphics'.frame.drawn # None
    /\ Unwrap(graphics'.frame.drawn).kind \in {"assert", "overflow", "text"}

C26_OutOfRangeLinePanics ==
    [][TextCalled =>
          LET call == Unwrap(graphics'.frame.drawn) IN
          IF call.line_number >= 50
          THEN pc' = "panicked" /\ call.kind = "assert"
          ELSE pc' = "rendering" /\ call.kind = "text"]_vars

\* draw_text was called with line number 50
C26_Witness ==
    /\ pc = "panicked"
    /\ graphics.frame.drawn = Some([kind |-> "assert", line_number |-> 50])

-----------------------------------------------------------------------------
(* C27: for every line number i < 50, draw_text places line i so that its    *)
(* vertical span lies within the vertical extent of the screen: the lines    *)
(* have the height 2 / ((1 + margin) * 50 + margin) in clip units, line i    *)
(* starts margin + (49 - i) * (1 + margin) line heights above the bottom     *)
(* edge, so that the lines do not overlap, are margin * height apart from    *)
(* each other and from the edges, and line 0 is the topmost.  Does not hold  *)
(* under SpecGraphics: the matrix draw_text applies is the identity.         *)

TextDrawn ==
    IF graphics.frame.drawn # None /\ Unwrap(graphics.frame.drawn).kind = "text"
    THEN graphics.frame.drawn
    ELSE None

C27_TextLinesTileScreen ==
    \A t \in {TextDrawn} \ {None} :
        LET i == Unwrap(t).line_number
            bottom == Unwrap(t).y
            height == Unwrap(t).height
            top == FAdd(bottom, height)
            margin == Frac(1, 5)
            steps == FAdd(margin, FMul(Whole(49 - i), FAdd(Whole(1), margin)))
        IN  /\ height = Frac(20, 602)
            /\ bottom = FAdd(Whole(0 - 1), FMul(steps, height))
            /\ FLessEq(Whole(0 - 1), bottom)
            /\ FLessEq(top, Whole(1))

-----------------------------------------------------------------------------
(* C28: when a due update is performed on a session, the session is marked   *)
(* ended and the tick count is not incremented if the simulation reports     *)
(* Ended, and the tick count is incremented by exactly one and the session   *)
(* stays not ended if it reports Running.  Does not hold under Spec: the     *)
(* tick count is incremented in both cases.                                  *)

TickCountStep(on_ended, on_running) ==
    UpdatePerformed =>
        LET before == Unwrap(game_data)
            after == Unwrap(game_data')
        IN  /\ ~ before.ended
            /\ \E status \in GameStatus :
                  /\ after.ended = (status = "Ended")
                  /\ after.num_updates = before.num_updates
                         + (IF status = "Ended" THEN on_ended ELSE on_running)

C28_EndedNotCounted == [][TickCountStep(0, 1)]_vars

(* C28, amended: the tick count is incremented by exactly one whatever the   *)
(* simulation reports; the session is marked ended if it reports Ended and   *)
(* stays not ended if it reports Running.                                    *)

C28_EveryUpdateCounted == [][TickCountStep(1, 1)]_vars

\* a session whose second update reported Ended: both updates are counted
C28_Witness ==
    /\ IsSome(game_data)
    /\ Unwrap(game_data).ended
    /\ Unwrap(game_data).num_updates = 2

-----------------------------------------------------------------------------
(* C29: the k-th update of a session, k counted from 0, is never performed   *)
(* before the instant reference + k / rate, the reference being the instant  *)
(* of start_new moved by all the time paused so far; and at every moment the *)
(* number of updates performed is at most 1 + floor(active time * rate), the *)
(* active time being the wall time since start_new minus the completed       *)
(* paused time.  Checked under SpecScenario, where the session is paused     *)
(* for 0.2 s, against the start instant and the paused time noted apart      *)
(* from the session's own reference.                                         *)

ActiveTime == now - obs.started_at - obs.paused_total

C29_UpdateNotEarly ==
    UpdatePerformed =>
        now >= obs.started_at + obs.paused_total
                 + TickOffset(Unwrap(game_data).num_updates, UPDATE_RATE)

C29_UpdatesBounded ==
    SessionOpen =>
        Unwrap(game_data).num_updates <= 1 + TicksIn(ActiveTime, UPDATE_RATE)

C29_NeverBeforeSchedule ==
    /\ [][C29_UpdateNotEarly]_vars
    /\ [](C29_UpdatesBounded)

\* update 29 has just been performed at its scheduled instant, 0.2 s of
\* pause after 29 periods from the start
C29_Witness ==
    /\ SessionOpen
    /\ obs.paused_total = ScenarioResumeAt - ScenarioPauseAt
    /\ Unwrap(game_data).num_updates = 30
    /\ now = obs.started_at + obs.paused_total + TickOffset(29, UPDATE_RATE)

-----------------------------------------------------------------------------
(* C30: a render is performed only when the current instant is at or after   *)
(* render reference + render phase + num_renders / 60, and each performed    *)
(* render increments num_renders by exactly one; an iteration in which that  *)
(* instant has not been reached performs no render and changes no field of   *)
(* the render clock.  Checked under Spec.                                    *)

RenderDue ==
    now >= graphics_data.render_ref_time + graphics_data.render_phase
             + (graphics_data.num_renders * UnitsPerSec) \div 60

C30_RenderOnlyWhenDue ==
    [][/\ (render_start = None /\ render_start' # None) => RenderDue
       /\ graphics_data' # graphics_data =>
              /\ render_start # None
              /\ now >= Unwrap(render_start).start
              /\ graphics_data'.num_renders = graphics_data.num_renders + 1
       /\ (pc = "render" /\ ~ RenderDue) =>
              /\ pc' = "closecheck"
              /\ render_start' = None
              /\ graphics_data' = graphics_data]_vars

\* the end of an iteration that did not render: one slow render has moved
\* the phase, and the next render is not due yet
C30_Witness ==
    /\ pc = "closecheck"
    /\ iter.render_decided
    /\ iter.renders = 0
    /\ graphics_data.num_renders = 1
    /\ graphics_data.render_phase > 0
    /\ ~ RenderDue

-----------------------------------------------------------------------------
(* C31: for a session started after the engine and running unpaused, with    *)
(* every render shorter than 10 ms and the loop woken no later than each     *)
(* requested wake-up instant, at the end of every iteration the number of    *)
(* renders performed since the engine started is at least the number of      *)
(* updates performed on that session.  Checked under SpecTimely, where the   *)
(* host is timely and no session is paused.  The render phase is zero        *)
(* exactly as long as no render has taken more than 10 ms.                   *)

NoSlowRender == graphics_data.render_phase = 0

IterationEnd == pc \in {"closecheck", "wait"}

C31_RendersKeepUp ==
    (IterationEnd /\ SessionOpen /\ ~ SessionPaused /\ NoSlowRender) =>
        graphics_data.num_renders >= Unwrap(game_data).num_updates

\* the third update falls due 0.04 s after the start and is performed in an
\* iteration that also renders the third time
C31_Witness ==
    /\ pc = "closecheck"
    /\ SessionOpen
    /\ NoSlowRender
    /\ iter.updates = 1
    /\ iter.renders = 1
    /\ Unwrap(game_data).num_updates = 3
    /\ graphics_data.num_renders = 3

-----------------------------------------------------------------------------
(* C32: while the cursor mode is Free or Captured, a cursor-move event of    *)
(* the OS sets the tracked position to the position reported and dispatches  *)
(* a cursor-moved event to the application exactly when the position         *)
(* reported differs from the one tracked before; a move event that reports   *)
(* the same position dispatches nothing.  Checked under SpecCursor on the    *)
(* steps that hand an OS event to the callback.                              *)

EventHandedOver == pc = "wait" /\ pending' = pending - 1

C32_MoveTrackedAndDispatched ==
    [][(EventHandedOver /\ cursor_data.mode # "Hidden") =>
          /\ window'.cursor # window.cursor =>
                 /\ cursor_data'.pos = window'.cursor
                 /\ (evt' = "CursorMoved") = (window'.cursor # cursor_data.pos)
          /\ evt' = "CursorMoved" =>
                 /\ cursor_data'.pos = window'.cursor
                 /\ cursor_data'.pos # cursor_data.pos
                 /\ pc' = "handler"
          /\ cursor_data'.pos = cursor_data.pos => evt' # "CursorMoved"]_vars

\* the handler of a cursor-moved event, the cursor captured at the position
\* the OS reported
C32_Witness ==
    /\ pc = "handler"
    /\ evt = "CursorMoved"
    /\ cursor_data.mode = "Captured"
    /\ cursor_data.pos = window.cursor
    /\ cursor_data.pos \in Positions

-----------------------------------------------------------------------------
(* C33: in every reachable state the session is never both paused and ended: *)
(* pause_start is set only on a session that is not ended, and the ended     *)
(* flag is set only on a session that is not paused.  Checked under Spec.    *)

PauseStartSet == ~ SessionPaused /\ SessionPaused'

EndedSet == ~ SessionEnded /\ SessionEnded'

C33_NotPausedAndEnded ==
    /\ [](~ (SessionPaused /\ SessionEnded))
    /\ [][PauseStartSet => (SessionOpen /\ ~ SessionEnded /\ ~ SessionEnded')]_vars
    /\ [][EndedSet => (SessionOpen /\ ~ SessionPaused /\ ~ SessionPaused')]_vars

\* a session that was paused before its first update, resumed, and whose
\* first update then reported Ended
C33_Witness ==
    /\ SessionEnded
    /\ ~ SessionPaused
    /\ obs.paused_total > 0

-----------------------------------------------------------------------------
(* C34: through any chain of controller operations within one dispatch, the  *)
(* controller variant held agrees with the stored session state (Running:    *)
(* a session that is neither paused nor ended; Paused: a session with        *)
(* pause_start set; Ended: a session that is ended; Closed: no session), so  *)
(* the unwraps in pause and resume never fail, and only one controller for   *)
(* the session exists at a time: at most one during a handler (none once    *)
(* the handler has given the controllers up to close the application) and    *)
(* none outside.  Checked under Spec.                                        *)

GameControllers == {"Running", "Paused", "Ended", "Closed"}

C34_ControllerAgreesWithSession ==
    /\ pc # "panicked"
    /\ ctl.game \in GameControllers \cup {"None"}
    /\ pc # "handler" => ctl.game = "None"
    /\ ctl.game = "Running" => (SessionOpen /\ ~ SessionPaused /\ ~ SessionEnded)
    /\ ctl.game = "Paused" => SessionPaused
    /\ ctl.game = "Ended" => SessionEnded
    /\ ctl.game = "Closed" => ~ SessionOpen

\* a handler that has paused the session it found running, some time after
\* the session was started
C34_Witness ==
    /\ pc = "handler"
    /\ ctl.game = "Paused"
    /\ ctl.app = "Partial"
    /\ iter.transition = "pause"
    /\ Unwrap(game_data).pause_start = Some(now)
    /\ now > obs.started_at

-----------------------------------------------------------------------------
(* C35: every update performed is followed, in the same iteration and before *)
(* the render decision, by exactly one session-updated event dispatched with *)
(* a controller that reflects the state after the update (Ended if the       *)
(* update reported Ended, Running otherwise); no session-updated event is    *)
(* dispatched in an iteration without an update.  Checked under Spec.        *)

UpdatedDispatched == evt # "GameUpdated" /\ evt' = "GameUpdated"

RenderDecided == ~ iter.render_decided /\ iter'.render_decided

C35_UpdateThenEvent ==
    /\ [][UpdatePerformed =>
             /\ UpdatedDispatched
             /\ pc' = "handler"
             /\ ctl'.game = IF Unwrap(game_data').ended THEN "Ended" ELSE "Running"
             /\ iter'.updates = 1
             /\ ~ iter'.render_decided]_vars
    /\ [][UpdatedDispatched => UpdatePerformed]_vars
    /\ [][RenderDecided => evt = "None"]_vars
    /\ [](evt = "GameUpdated" => (iter.updates = 1 /\ ~ iter.render_decided))

\* the handler of the session-updated event after an update that reported
\* Ended
C35_Witness ==
    /\ pc = "handler"
    /\ evt = "GameUpdated"
    /\ ctl = [game |-> "Ended", cursor |-> cursor_controller(cursor_data),
              app |-> "Whole"]
    /\ SessionEnded
    /\ iter.updates = 1

-----------------------------------------------------------------------------
(* C36: a render never runs while an update or an event handler is in        *)
(* progress, and leaves the session state, the cursor state and the closing  *)
(* flag unchanged; the snapshot passed to the render callback is absent      *)
(* exactly when no session exists, and otherwise its paused and ended flags  *)
(* are the session's current ones, after this iteration's update.  Checked   *)
(* under Spec.                                                               *)

RenderRunning == pc = "rendering"

C36_SnapshotIsCurrent ==
    RenderRunning =>
        /\ evt = "None"
        /\ ctl = NoCtl
        /\ iter.update_decided
        /\ IsSome(render_start)
        /\ (Unwrap(render_start).game_info = None) = (~ SessionOpen)
        /\ SessionOpen =>
               LET info == Unwrap(Unwrap(render_start).game_info) IN
               /\ info.paused = SessionPaused
               /\ info.ended = SessionEnded
               /\ info.game = Unwrap(game_data).game

C36_RenderLeavesStateAlone ==
    /\ [](C36_SnapshotIsCurrent)
    /\ [][RenderRunning =>
             /\ game_data' = game_data
             /\ cursor_data' = cursor_data
             /\ closing' = closing
             /\ pc' \in {"rendering", "closecheck"}]_vars

\* a render of a session that its session-updated handler paused right
\* after this iteration's update
C36_Witness ==
    /\ RenderRunning
    /\ iter.updates = 1
    /\ SessionPaused
    /\ Unwrap(game_data).pause_start = Some(Unwrap(render_start).start)
    /\ Unwrap(Unwrap(render_start).game_info).paused

-----------------------------------------------------------------------------
(* C37: for an orthogonal projection and every screen ratio > 0, the ratio   *)
(* of the half-width to the half-height of the box equals the screen ratio,  *)
(* so that the image is not stretched on the screen, on both sides of        *)
(* screen_ratio = optimal_ratio.  Does not hold under SpecGraphics: on a     *)
(* screen wider than optimal the ratio of the box is screen_ratio times      *)
(* optimal_ratio.                                                            *)

C37_OrthogonalNotStretched ==
    \A c \in {CameraOf("Orthogonal")} \ {None} :
        LET m == Unwrap(c).matrix IN
        /\ FPositive(m.top)
        /\ m.right = FMul(m.top, graphics.screen_ratio)

-----------------------------------------------------------------------------
(* C38: if the OS refuses a pointer-grab request made by capture, hide,      *)
(* free, show or show_captured, the engine is never left with a stored       *)
(* cursor mode that disagrees with the grab the OS holds: Captured or Hidden *)
(* without the grab, or Free with it.  Does not hold under SpecCursor: the   *)
(* result of the request is discarded and the mode is stored all the same.   *)

C38_ModeAgreesWithGrab ==
    window.grab <=> cursor_data.mode \in {"Captured", "Hidden"}

-----------------------------------------------------------------------------
(* C39: under fairness of the loop (it is woken at the latest at each        *)
(* requested wake-up instant and time advances), whenever a session is       *)
(* Running and the closing flag is not set, its next scheduled update is     *)
(* eventually performed unless a handler pauses or closes the session first, *)
(* the closing flag staying unset; in particular a newly started or resumed  *)
(* session is not left waiting indefinitely.  Checked under SpecLive for the *)
(* updates scheduled within the time the clock of the model covers; a loop   *)
(* that is asleep until an instant beyond that time when the clock stops     *)
(* has not been left waiting indefinitely.                                   *)

\* update k of a session is scheduled k periods or more after the engine
\* started
UpdateCounts == 0 .. TicksIn(Horizon, UPDATE_RATE)

\* the session is running and has its update number k scheduled
AwaitsUpdate(k) ==
    /\ SessionOpen
    /\ ~ SessionPaused
    /\ ~ SessionEnded
    /\ ~ closing
    /\ Unwrap(game_data).num_updates = k
    /\ Unwrap(current_next_update) <= Horizon

\* update number k was performed, or the session was paused or closed
UpdatedOrSetAside(k) ==
    \/ ~ SessionOpen
    \/ SessionPaused
    \/ Unwrap(game_data).num_updates > k

\* the clock of the model has stopped while the loop sleeps until a later
\* instant
ClockRanOut ==
    /\ now = Horizon
    /\ pc = "wait"
    /\ pending = 0
    /\ ~ wake_due

C39_UpdateEventuallyPerformed ==
    \A k \in UpdateCounts :
        AwaitsUpdate(k) ~> (UpdatedOrSetAside(k) \/ closing \/ ClockRanOut)

\* a session that was paused before its first update and resumed has had
\* that update performed in this iteration
C39_Witness ==
    /\ SessionOpen
    /\ ~ closing
    /\ obs.paused_total > 0
    /\ Unwrap(game_data).num_updates = 1
    /\ iter.updates = 1

====
